---- MODULE Spec2Model ----
(***************************************************************************)
(* Ludolph (monitoring jabber bot): the bot orchestration engine of        *)
(* ludolph/bot.py as a state machine.  The LudolphBot object is the record *)
(* `bot`; its collaborators (persistent DB file, web server, cron, the MUC *)
(* room kept by the XMPP library) are the other variables.  Handlers are   *)
(* atomic actions; their inputs are drawn from small sets.                 *)
(***************************************************************************)
EXTENDS Integers, Sequences, FiniteSets, TLC

VARIABLES
    bot,        \* the LudolphBot instance: a record of its attributes
    dbfile,     \* content of the persistent DB file (LudolphDB)
    webhooks,   \* webserver.webhooks: modules with a registered webhook
    crontab,    \* cron.crontab: modules with a registered cron job
    roster,     \* muc.rooms[room]: bare JIDs of the occupants known to the bot
    joined,     \* the rooms joinMUC was issued for (and not left since)
    session,    \* session_start was received (the socket is connected)
    clock,      \* datetime.now()
    phase,      \* position of the process: running, prereload, loaded, stopping, exited
    pending,    \* plugin spec list loaded by main between prereload and reload
    last,       \* observation: the last operation and what it emitted
    recon,      \* observation: invitations over consecutive reconciliations
    teardown,   \* observation: collaborator stop calls of this process
    held        \* observation: values held when shutdown ran

vars == <<bot, dbfile, webhooks, crontab, roster, joined, session,
          clock, phase, pending, last, recon, teardown, held>>

----------------------------------------------------------------------------
\* Bounds of the model
MaxClock == 1          \* timestamps are 0..MaxClock
MaxTokens == 1         \* a message body has at most MaxTokens tokens

\* Identities
JIDs == {"a@x", "b@x"}
NoRoom == "None"                 \* room is None or '' (both are falsy)
TheRoom == "room@conf"
OtherRoom == "other@conf"        \* a room the configuration names later
SelfModule == "ludolph.bot"      \* __name__ of bot.py
Modules == {"p1", "p2"}          \* module ids of the plugins

Min(x, y) == IF x < y THEN x ELSE y
EmptyMap == [j \in {} |-> 0]
Now == clock

----------------------------------------------------------------------------
\* Configuration files.  A comma-separated JID option is the set of its
\* stripped entries; an entry is described by what read_jid_array looks at:
\* whether it contains '@', whether it starts with '@', and its text (after
\* the leading '@' for a keyword).
Jid(j) == [at |-> TRUE, lead |-> FALSE, s |-> j]
Kwd(k) == [at |-> TRUE, lead |-> TRUE, s |-> k]
Bad(t) == [at |-> FALSE, lead |-> FALSE, s |-> t]

\* read_jid_array(section, option, keywords): nested function of _load_config
read_jid_entry(e, keywords, b) ==
    IF e.s = "" /\ ~e.at THEN {}
    ELSE IF e.at
         THEN IF e.lead
              THEN IF e.s \in keywords
                   THEN CASE e.s = "users" -> b.users
                          [] e.s = "admins" -> b.admins
                          [] e.s = "room_users" -> b.room_users
                          [] OTHER -> {}
                   ELSE {}
              ELSE {e.s}
         ELSE {}

read_jid_array(option, keywords, b) ==
    UNION {read_jid_entry(e, keywords, b) : e \in option}

\* A room configuration form: the two fields _room_config sets
Form(mo, mbd) == [fetched |-> TRUE, membersonly |-> mo, members_by_default |-> mbd]
NoForm == [fetched |-> FALSE, membersonly |-> FALSE, members_by_default |-> FALSE]

\* class attributes of LudolphBot and the fields set first in __init__
NewBot ==
    [users |-> {}, admins |-> {}, room |-> NoRoom, room_invites |-> TRUE,
     room_users |-> {}, room_admins |-> {},
     room_users_invited |-> {}, room_users_last_seen |-> EmptyMap,
     muc_ready |-> FALSE, reloaded |-> FALSE, shutting_down |-> FALSE,
     muc |-> FALSE, db |-> FALSE, webserver |-> FALSE, cron |-> FALSE,
     plugins |-> <<>>, commands |-> {}, room_config |-> NoForm]

EmptyFile == [room_users_invited |-> {}, room_users_last_seen |-> EmptyMap]

\* dict.update
DictUpdate(d, e) ==
    [k \in DOMAIN d \cup DOMAIN e |-> IF k \in DOMAIN e THEN e[k] ELSE d[k]]

\* _db_set_items: what the store holds once it is closed
db_set_items(b) ==
    [room_users_invited |-> b.room_users_invited,
     room_users_last_seen |-> b.room_users_last_seen]

\* a load that restores the invitations only
db_load_items_invited_only(b, file) ==
    [b EXCEPT !.room_users_invited = @ \cup file.room_users_invited]

\* _db_load_items
db_load_items(b, file) ==
    [b EXCEPT !.room_users_invited = @ \cup file.room_users_invited,
              !.room_users_last_seen = DictUpdate(@, file.room_users_last_seen)]

\* LudolphDBMixin.db_enable(db, init=True): attach the store and load from it
db_enable(b, file) == db_load_items([b EXCEPT !.db = TRUE], file)

\* LudolphDBMixin.db_disable
db_disable(b) == [b EXCEPT !.db = FALSE]

\* a load that carries stale invitations forward
prune_invited_skipped(invited, room_users) == invited

\* "Room users vs. room_users_invited"
prune_invited(invited, room_users) ==
    IF invited # {} THEN invited \cap room_users ELSE invited

\* _load_config, "Get DB file"
load_db(b, cfg, file) == IF cfg.dbfile THEN db_enable(b, file) ELSE b

\* _load_config, "Users"
load_users(b, cfg) == [b EXCEPT !.users = read_jid_array(cfg.users, {}, b)]

\* the values of self.users a handler running in another thread can read
\* while _load_config runs: the set is cleared and refilled in place
users_views(b, cfg) == {b.users, {}, read_jid_array(cfg.users, {}, b)}

\* a handler that wants every subscriber listed
handle_new_subscription_listed_only(users, user) == user \in users

\* _handle_new_subscription: whether the subscription is allowed
handle_new_subscription(users, user) == users = {} \/ user \in users

\* _load_config, "Admins"
load_admins(b, cfg) ==
    [b EXCEPT !.admins = read_jid_array(cfg.admins, {"users"}, b)]

\* _load_config, "MUC room" and the room_invites setting
load_room(b, cfg) ==
    [b EXCEPT !.room = cfg.room,
              !.room_invites = IF cfg.has_enabled THEN cfg.room_invites ELSE TRUE]

\* _load_config, "MUC room users"
load_room_users(b, cfg) ==
    [b EXCEPT !.room_users =
         IF b.room # NoRoom
         THEN read_jid_array(cfg.room_users, {"users", "admins"}, b)
         ELSE {}]

\* _load_config, "MUC room admins"
load_room_admins(b, cfg) ==
    [b EXCEPT !.room_admins =
         IF b.room # NoRoom
         THEN read_jid_array(cfg.room_admins,
                             {"users", "admins", "room_users"}, b)
         ELSE {}]

\* _load_config, "Room users vs. room_users_invited"
load_invited(b) ==
    [b EXCEPT !.room_users_invited = prune_invited(@, b.room_users)]

\* a load that builds the web server and cron whenever they are missing
load_collaborators_any_time(b, cfg, init) ==
    [b EXCEPT !.webserver = IF ~@ THEN cfg.webserver ELSE @,
              !.cron = IF ~@ THEN cfg.cron ELSE @]

\* _load_config, "Web server" and "Cron"
load_collaborators(b, cfg, init) ==
    [b EXCEPT !.webserver = IF init /\ ~@ THEN cfg.webserver ELSE @,
              !.cron = IF init /\ ~@ THEN cfg.cron ELSE @]

\* _load_config(config, init)
load_config(b, cfg, init, file) ==
    load_collaborators(
        load_invited(
            load_room_admins(
                load_room_users(
                    load_room(
                        load_admins(
                            load_users(load_db(b, cfg, file), cfg),
                            cfg),
                        cfg),
                    cfg),
                cfg)),
        cfg, init)

----------------------------------------------------------------------------
\* The plugin registry PLUGINS: an OrderedDict, modelled as the sequence of
\* its entries [module, inst, reinit] in insertion order.  inst tells a new
\* instance from the one it replaces; reinit is the flag its constructor got.
Keys(reg) == {reg[i].module : i \in DOMAIN reg}
Entry(reg, m) == CHOOSE e \in {reg[i] : i \in DOMAIN reg} : e.module = m
Del(reg, m) == SelectSeq(reg, LAMBDA e : e.module # m)
Put(reg, e) ==
    IF e.module \in Keys(reg)
    THEN [i \in DOMAIN reg |-> IF reg[i].module = e.module THEN e ELSE reg[i]]
    ELSE Append(reg, e)
NewInst(reg, m) == IF m \in Keys(reg) THEN 1 - Entry(reg, m).inst ELSE 0
SelfEntry == [module |-> SelfModule, inst |-> 0, reinit |-> FALSE]

\* A plugin spec list as main passes it: None, or a list of specs with
\* distinct module ids.
Spec1(m) == [module |-> m]
NoList == [given |-> FALSE, specs |-> <<>>]          \* plugins=None
List(specs) == [given |-> TRUE, specs |-> specs]
PluginLists ==
    {NoList, List(<<>>)} \cup {List(<<Spec1(m)>>) : m \in Modules}
    \cup {List(<<Spec1(p[1]), Spec1(p[2])>>) :
             p \in {q \in Modules \X Modules : q[1] # q[2]}}
ListModules(plugins) == {plugins.specs[i].module : i \in DOMAIN plugins.specs}

\* "enabled_plugin not in plugins": whether a module id is among the specs
plugins_contains(plugins, modname) == modname \in ListModules(plugins)

\* a reload that keeps the plugins the new list dropped
remove_disabled_none(reg, plugins) == reg

\* a reload that does not skip the bot's own entry
remove_disabled_self_too(reg, plugins) ==
    SelectSeq(reg, LAMBDA e : plugins_contains(plugins, e.module))

\* "Bot reload - remove disabled plugins"
remove_disabled(reg, plugins) ==
    SelectSeq(reg, LAMBDA e : e.module = SelfModule
                              \/ plugins_contains(plugins, e.module))

\* a replacement that leaves the old instance registered until the new one
\* is constructed
plugin_branch_keep_old(init, registered) ==
    IF init \/ ~registered
    THEN [reinit |-> FALSE, del |-> FALSE]
    ELSE [reinit |-> TRUE, del |-> FALSE]

\* a replacement that is constructed like a fresh plugin
plugin_branch_no_reinit(init, registered) ==
    IF init \/ ~registered
    THEN [reinit |-> FALSE, del |-> FALSE]
    ELSE [reinit |-> FALSE, del |-> TRUE]

\* the branch taken for one spec: fresh initialisation, or replacement of
\* the registered instance
plugin_branch(init, registered) ==
    IF init \/ ~registered
    THEN [reinit |-> FALSE, del |-> FALSE]
    ELSE [reinit |-> TRUE, del |-> TRUE]

\* one iteration of "for plugin in plugins"; acc = [reg, constructed]
load_plugin(acc, plugin, init, fails) ==
    LET modname == plugin.module
        br == plugin_branch(init, modname \in Keys(acc.reg))
        reg1 == IF br.del THEN Del(acc.reg, modname) ELSE acc.reg
        obj == [module |-> modname, inst |-> NewInst(acc.reg, modname),
                reinit |-> br.reinit]
        ok == modname \notin fails
    IN  [reg |-> IF ok THEN Put(reg1, obj) ELSE reg1,
         constructed |-> Append(acc.constructed,
                                [module |-> modname, reinit |-> br.reinit,
                                 ok |-> ok])]

RECURSIVE load_all(_, _, _, _, _)
load_all(acc, plugins, i, init, fails) ==
    IF i > Len(plugins) THEN acc
    ELSE load_all(load_plugin(acc, plugins[i], init, fails),
                  plugins, i + 1, init, fails)

\* Commands a plugin module declares: [name, module, gate, min_args]
Cmd(n, m, g, k) == [name |-> n, module |-> m, gate |-> g, min_args |-> k]
CommandsOf(m) ==
    CASE m = "p1" -> {Cmd("status", "p1", "User", 1),
                      Cmd("restart", "p1", "Admin", 0)}
      [] m = "p2" -> {Cmd("alerts", "p2", "Any", 0)}
      [] OTHER -> {}
HasWebhook == {"p1"}          \* modules that register a webhook
HasCronjob == {"p1", "p2"}    \* modules that register a cron job

\* commands.all(reset=True): the command table rebuilt from the plugin set
rebuild_commands(reg) == UNION {CommandsOf(m) : m \in Keys(reg)}

\* commands.reset()
commands_reset(commands) == {}

\* _load_plugins, the registry before the specs are gone through
start_registry(reg, plugins, init) ==
    IF init THEN <<SelfEntry>>
    ELSE IF ~plugins.given THEN reg
    ELSE remove_disabled(reg, plugins)

\* _load_plugins, "if plugins: for plugin in plugins"
load_specs(reg0, plugins, init, fails) ==
    IF plugins.given /\ plugins.specs # <<>>
    THEN load_all([reg |-> reg0, constructed |-> <<>>], plugins.specs, 1,
                  init, fails)
    ELSE [reg |-> reg0, constructed |-> <<>>]

\* _load_plugins, "Update commands cache"
finish_load(b, acc) ==
    [bot |-> [b EXCEPT !.plugins = acc.reg,
                       !.commands = rebuild_commands(acc.reg)],
     raised |-> FALSE, constructed |-> acc.constructed]

\* _load_plugins(config, plugins, init); fails = the modules whose
\* constructor (or config section lookup) raises.  With plugins None a reload
\* raises TypeError on the first registered plugin other than the bot.
load_plugins(b, plugins, init, fails) ==
    IF ~init /\ ~plugins.given /\ Keys(b.plugins) \ {SelfModule} # {}
    THEN [bot |-> b, raised |-> TRUE, constructed |-> <<>>]
    ELSE finish_load(b, load_specs(start_registry(b.plugins, plugins, init),
                                   plugins, init, fails))

\* main's plugin loading (between prereload and reload, and before the bot
\* is constructed): the listed modules register their webhooks and cron jobs
register_hooks(webserver, hooks, plugins) ==
    IF webserver THEN hooks \cup (ListModules(plugins) \cap HasWebhook) ELSE hooks
register_jobs(cron, jobs, plugins) ==
    IF cron THEN jobs \cup (ListModules(plugins) \cap HasCronjob) ELSE jobs

\* prereload(): the bot after it, and the collaborators after it
prereload_bot(b) ==
    LET b1 == [b EXCEPT !.commands = commands_reset(@)]
    IN  IF b1.db THEN db_disable(b1) ELSE b1
\* a prereload that leaves the webhooks registered
prereload_webhooks_kept(b, hooks) == hooks
prereload_webhooks(b, hooks) == IF b.webserver THEN {} ELSE hooks
prereload_crontab(b, jobs) == IF b.cron THEN {} ELSE jobs
prereload_dbfile(b, file) == IF b.db THEN db_set_items(b) ELSE file

\* reload, "if self.room and self.muc": leave the room and join it again;
\* calls = the calls made to the MUC plugin, in their order
reload_room(lp) ==
    IF ~lp.raised /\ lp.bot.room # NoRoom /\ lp.bot.muc
    THEN [bot |-> [lp.bot EXCEPT !.muc_ready = FALSE], raised |-> lp.raised,
          constructed |-> lp.constructed, rejoin |-> TRUE,
          calls |-> <<[call |-> "leaveMUC", room |-> lp.bot.room],
                      [call |-> "joinMUC", room |-> lp.bot.room]>>]
    ELSE [bot |-> lp.bot, raised |-> lp.raised,
          constructed |-> lp.constructed, rejoin |-> FALSE, calls |-> <<>>]

\* the rooms the bot is in once the MUC plugin has carried out the calls
RECURSIVE rooms_after(_, _)
rooms_after(rooms, calls) ==
    IF calls = <<>> THEN rooms
    ELSE rooms_after(IF Head(calls).call = "leaveMUC"
                     THEN rooms \ {Head(calls).room}
                     ELSE rooms \cup {Head(calls).room},
                     Tail(calls))

\* reload(config, plugins)
reload(b, cfg, plugins, fails, file) ==
    reload_room(
        load_plugins(load_config([b EXCEPT !.reloaded = TRUE], cfg, FALSE, file),
                     plugins, FALSE, fails))

\* __init__, "if self.room: self.muc = self.plugin['xep_0045']"
init_muc(lp) ==
    [bot |-> [lp.bot EXCEPT !.muc = (lp.bot.room # NoRoom)],
     constructed |-> lp.constructed]

\* __init__(config, plugins)
construct(cfg, plugins, fails, file) ==
    init_muc(load_plugins(load_config(NewBot, cfg, TRUE, file),
                          plugins, TRUE, fails))

----------------------------------------------------------------------------
\* The multi-user chat room
BotJid == "bot@x"                \* boundjid.bare

\* _is_jid_in_room
is_jid_in_room(ros, jid) == jid \in ros

\* _update_room_users_last_seen
update_room_users_last_seen(seen, jid, now) ==
    DictUpdate(seen, [k \in {jid} |-> now])

\* the two policies exchanged
room_policy_swapped(room_users) ==
    IF room_users # {} THEN Form(FALSE, TRUE) ELSE Form(TRUE, FALSE)

\* the policy _room_config writes into the fetched form
room_policy(room_users) ==
    IF room_users # {} THEN Form(TRUE, FALSE) ELSE Form(FALSE, TRUE)

\* a member list that makes nobody an admin
room_members_no_admin(b) ==
    {[jid |-> BotJid, affiliation |-> "owner"]}
    \cup {[jid |-> j, affiliation |-> "member"] : j \in b.room_users}

\* _room_members: the affiliation list sent to the room
room_members(b) ==
    {[jid |-> BotJid, affiliation |-> "owner"]}
    \cup {[jid |-> j,
           affiliation |-> IF j \in b.room_admins THEN "admin" ELSE "member"] :
          j \in b.room_users}

\* _room_config: get_fail = getRoomConfig raises ValueError, set_fail =
\* setRoomConfig raises IqError, mem_fail = the member list iq raises IqError
room_config(b, get_fail, set_fail, mem_fail) ==
    IF get_fail
    THEN [bot |-> b, pushed |-> NoForm, members |-> {}, failed |-> {"get"}]
    ELSE LET form == room_policy(b.room_users)
         IN  [bot |-> [b EXCEPT !.room_config = form],
              pushed |-> form,
              members |-> room_members(b),
              failed |-> {x \in {"set"} : set_fail}
                         \cup {x \in {"members"} : mem_fail}]

\* a loop that invites whether or not invitations are enabled
invite_targets_always(b, ros) ==
    {user \in b.room_users :
        /\ ~is_jid_in_room(ros, user)
        /\ user # b.room
        /\ user \notin b.room_users_invited}

\* the users the loop of muc_online invites
invite_targets(b, ros) ==
    {user \in b.room_users :
        /\ ~is_jid_in_room(ros, user)
        /\ user # b.room
        /\ b.room_invites
        /\ user \notin b.room_users_invited}

\* a loop that forgets whom it invited
mark_invited_forgotten(invited, targets) == invited

\* room_users_invited.add(user) for the invited users
mark_invited(invited, targets) == invited \cup targets

\* last-seen stamps of the loop of muc_online
RECURSIVE stamp_all(_, _, _)
stamp_all(seen, present, now) ==
    IF present = {} THEN seen
    ELSE LET j == CHOOSE x \in present : TRUE
         IN  stamp_all(update_room_users_last_seen(seen, j, now),
                       present \ {j}, now)

\* the loop "for user in self.room_users" of muc_online
reconcile(b, ros, now) ==
    [b EXCEPT !.room_users_last_seen =
                  stamp_all(@, {user \in b.room_users : is_jid_in_room(ros, user)},
                            now),
              !.room_users_invited = mark_invited(@, invite_targets(b, ros))]

\* a handler that declares the room ready only once it is configured
muc_online_loop_unready(rc, ros, now) ==
    [bot |-> reconcile([rc.bot EXCEPT !.muc_ready = (rc.failed = {})], ros, now),
     pushed |-> rc.pushed, members |-> rc.members, failed |-> rc.failed,
     invites |-> invite_targets(rc.bot, ros)]

\* muc_online, the branch for the bot's own presence
muc_online_loop(rc, ros, now) ==
    [bot |-> reconcile([rc.bot EXCEPT !.muc_ready = TRUE], ros, now),
     pushed |-> rc.pushed, members |-> rc.members, failed |-> rc.failed,
     invites |-> invite_targets(rc.bot, ros)]
muc_online_self(b, ros, now, get_fail, set_fail, mem_fail) ==
    muc_online_loop(room_config(b, get_fail, set_fail, mem_fail), ros, now)

\* _jid_entered_room / _jid_left_room
jid_entered_room(b, jid, now) ==
    [b EXCEPT !.room_users_last_seen = update_room_users_last_seen(@, jid, now)]
\* a departure that also withdraws the invitation
jid_left_room_forgets_invite(b, jid, now) ==
    [b EXCEPT !.room_users_last_seen = update_room_users_last_seen(@, jid, now),
              !.room_users_invited = @ \ {jid}]
jid_left_room(b, jid, now) ==
    [b EXCEPT !.room_users_last_seen = update_room_users_last_seen(@, jid, now)]

----------------------------------------------------------------------------
\* Messages.  A body is the sequence of its whitespace-separated tokens.
Tokens == {"status", "restart", "foo"}
Bodies == UNION {[1..n -> Tokens] : n \in 0..MaxTokens}
MsgTypes == {"chat", "normal", "groupchat"}
NoMsg == [type |-> "none", from |-> "none", body |-> <<>>]

Names(commands) == {c.name : c \in commands}

\* commands.get_command(name): the command of that name, if any
get_command(commands, name) == {c \in commands : c.name = name}

\* a role gate that lets everybody through
role_gate_allows_all(b, gate, jid) == TRUE

\* Identity & Role Store predicates used by the role gate
role_gate_allows(b, gate, jid) ==
    CASE gate = "Admin" -> jid \in b.admins
      [] gate = "User" -> jid \in b.users
      [] OTHER -> TRUE

\* cmd.get_fun(self)(msg): the decorated command, which checks the role gate
\* and the argument count before it runs the handler
run_command(b, cmd, msg) ==
    IF ~role_gate_allows(b, cmd.gate, msg.from) THEN "denied"
    ELSE IF Len(msg.body) - 1 < cmd.min_args THEN "usage"
    ELSE "executed"

\* message(msg, types): what the handler does with the message
message(b, msg, types) ==
    IF msg.type \notin types THEN "ignored"
    ELSE IF Len(msg.body) = 0 THEN "IndexError"
    ELSE LET found == get_command(b.commands, msg.body[1])
         IN  IF found # {}
             THEN run_command(b, CHOOSE c \in found : TRUE, msg)
             ELSE "fallback"

\* Room messages.  The body of a groupchat stanza is the sequence of its
\* characters; a nickname is one too.
nick == <<"L", "u", "d", "o", "l", "p", "h">>      \* nick = 'Ludolph'
Whitespace == {" "}

\* str.startswith
startswith(s, prefix) ==
    Len(s) >= Len(prefix) /\ SubSeq(s, 1, Len(prefix)) = prefix

\* str.lstrip(chars): drops every leading character that is among chars
RECURSIVE lstrip(_, _)
lstrip(s, chars) ==
    IF s # <<>> /\ Head(s) \in chars THEN lstrip(Tail(s), chars) ELSE s

\* str.split(): the whitespace-separated words of s
RECURSIVE split(_, _, _)
split(s, word, acc) ==
    IF s = <<>>
    THEN IF word = <<>> THEN acc ELSE Append(acc, word)
    ELSE IF Head(s) \in Whitespace
         THEN split(Tail(s), <<>>, IF word = <<>> THEN acc ELSE Append(acc, word))
         ELSE split(Tail(s), Append(word, Head(s)), acc)

\* the tokens of s: every word as the name of Tokens it spells, "foo" for a
\* word that names nothing
tokens(s) ==
    [i \in DOMAIN split(s, <<>>, <<>>) |->
        CASE split(s, <<>>, <<>>)[i] = <<"s", "t", "a", "t", "u", "s">> -> "status"
          [] split(s, <<>>, <<>>)[i] = <<"r", "e", "s", "t", "a", "r", "t">> -> "restart"
          [] OTHER -> "foo"]

\* the nickname under which an occupant of the room writes
NickOf(jid) == IF jid = "a@x" THEN <<"a">> ELSE <<"b">>

\* muc.getJidProperty(mucroom, mucnick, 'jid'): the real JID of the occupant
\* with that nickname, '' when the roster of the room does not tell it
getJidProperty(ros, mucnick) ==
    IF \E j \in ros : NickOf(j) = mucnick
    THEN CHOOSE j \in ros : NickOf(j) = mucnick
    ELSE ""

\* get_jid(msg): msg = [type, from, mucnick, text], from being the bare JID
\* the stanza came from
get_jid(b, ros, msg) ==
    IF msg.type = "groupchat" /\ b.room # NoRoom
    THEN getJidProperty(ros, msg.mucnick)
    ELSE msg.from

\* "msg['body'].lstrip(nick).lstrip()" and the call of message
muc_message_pass(b, msg, jid) ==
    message(b, [type |-> msg.type, from |-> jid,
                body |-> tokens(lstrip(lstrip(msg.text,
                                              {nick[i] : i \in DOMAIN nick} \cup {":"}),
                                       Whitespace))],
            {"groupchat"})

\* muc_message(msg): "dropped" when the handler returns without a call of
\* message
muc_message(b, ros, msg) ==
    IF ~b.muc_ready THEN "dropped"
    ELSE IF msg.mucnick = nick THEN "dropped"
    ELSE IF startswith(msg.text, nick \o <<":">>) /\ get_jid(b, ros, msg) # ""
         THEN muc_message_pass(b, msg, get_jid(b, ros, msg))
         ELSE "dropped"

----------------------------------------------------------------------------
\* shutdown(signalnum, handler)
Inc(n) == Min(n + 1, 2)
NoTeardown ==
    [calls |-> 0, webserver_stop |-> 0, cron_stop |-> 0, db_set_items |-> 0,
     db_close |-> 0, abort |-> 0]

\* a shutdown that does not look at shutting_down
shutdown_in_progress_unchecked(b) == FALSE

\* "if self.shutting_down: return"
shutdown_in_progress(b) == b.shutting_down

\* the body of shutdown after the guard; f_db = db.close() raises
shutdown_bot(b, f_db) ==
    LET b1 == [b EXCEPT !.shutting_down = TRUE]
    IN  IF b1.db /\ ~f_db THEN db_disable(b1) ELSE b1
shutdown_dbfile(b, file, f_db, written) ==
    IF b.db /\ (~f_db \/ written) THEN db_set_items(b) ELSE file

\* the four guarded blocks of shutdown, as calls made to the collaborators
stop_webserver(b, td) ==
    [td EXCEPT !.webserver_stop = IF b.webserver THEN Inc(@) ELSE @]
stop_cron(b, td) == [td EXCEPT !.cron_stop = IF b.cron THEN Inc(@) ELSE @]
stop_db(b, td) ==
    [td EXCEPT !.db_set_items = IF b.db THEN Inc(@) ELSE @,
               !.db_close = IF b.db THEN Inc(@) ELSE @]
stop_abort(td) == [td EXCEPT !.abort = Inc(@)]
shutdown_teardown(b, td) ==
    stop_abort(stop_db(b, stop_cron(b, stop_webserver(b, td))))

\* one try block around the three collaborators: the first failure skips
\* the remaining ones
shutdown_next_one_try(step, failed) ==
    IF failed THEN "stop_abort"
    ELSE CASE step = "stop_webserver" -> "stop_cron"
           [] step = "stop_cron" -> "stop_db"
           [] OTHER -> "stop_abort"

\* no try block: a failure leaves the handler
shutdown_next_escapes(step, failed) ==
    IF failed THEN "stopping"
    ELSE CASE step = "stop_webserver" -> "stop_cron"
           [] step = "stop_cron" -> "stop_db"
           [] OTHER -> "stop_abort"

\* where shutdown goes on after a block whose stop failed or not: every
\* block catches Exception and logs it
shutdown_next(step, failed) ==
    CASE step = "stop_webserver" -> "stop_cron"
      [] step = "stop_cron" -> "stop_db"
      [] OTHER -> "stop_abort"

\* an abort handler that always exits
abort_outcome_always_exits(f_abort, socket) ==
    [raised |-> FALSE, exit |-> IF f_abort THEN 99 ELSE 0]

\* "try: self.abort()": f_abort = abort() raises, socket = self.socket is set
abort_outcome(f_abort, socket) ==
    [raised |-> f_abort /\ socket, exit |-> IF f_abort /\ ~socket THEN 99 ELSE 0]

----------------------------------------------------------------------------
\* Observations
NoSub ==
    [made |-> FALSE, from |-> "none", seen |-> {}, before |-> {},
     allowed |-> FALSE]
LastNone ==
    [op |-> "none", invites |-> {}, pushed |-> NoForm, members |-> {},
     greeting |-> FALSE, msg |-> NoMsg, out |-> "none", raised |-> FALSE,
     noop |-> FALSE, exit |-> 0, list |-> NoList, before |-> <<>>,
     constructed |-> <<>>, fails |-> {}, failed |-> {}, sub |-> NoSub,
     muc |-> [mucnick |-> <<>>, text |-> <<>>, ready |-> FALSE, jid |-> ""],
     calls |-> <<>>, joined |-> {}]
NoRecon ==
    [runs |-> 0, once |-> {}, twice |-> {}, after_first |-> {},
     pc |-> <<"idle", "idle">>, todo |-> <<{}, {}>>, user |-> <<"", "">>]
NoHeld ==
    [valid |-> FALSE, db |-> FALSE, saved |-> FALSE,
     room_users_invited |-> {}, room_users_last_seen |-> EmptyMap]

Alive == {"running", "prereload", "loaded"}

\* Configuration files: [dbfile, users, admins, room, has_enabled,
\* room_invites, room_users, room_admins, webserver, cron].  dbfile,
\* webserver and cron tell whether the section enables the collaborator;
\* has_enabled is has_option('xmpp', 'enabled') and room_invites the value
\* getboolean('xmpp', 'room_invites') returns.
Config(d, u, a, r, he, ri, ru, ra, w, c) ==
    [dbfile |-> d, users |-> u, admins |-> a, room |-> r, has_enabled |-> he,
     room_invites |-> ri, room_users |-> ru, room_admins |-> ra,
     webserver |-> w, cron |-> c]

\* the state of a process right after LudolphBot(config, plugins)
StartedWith(c, plugins, fails) ==
    [bot |-> c.bot,
     webhooks |-> register_hooks(c.bot.webserver, {}, plugins),
     crontab |-> register_jobs(c.bot.cron, {}, plugins),
     last |-> [LastNone EXCEPT !.op = "startup", !.list = plugins,
                               !.constructed = c.constructed,
                               !.fails = fails]]
Started(cfg, plugins, fails, file) ==
    StartedWith(construct(cfg, plugins, fails, file), plugins, fails)

InitOver(Cfgs, Lists) ==
    \E cfg \in Cfgs, plugins \in Lists, fails \in SUBSET Modules :
        \E st \in {Started(cfg, plugins, fails, EmptyFile)} :
            /\ bot = st.bot
            /\ dbfile = EmptyFile
            /\ webhooks = st.webhooks
            /\ crontab = st.crontab
            /\ roster = {}
            /\ joined = {}
            /\ session = FALSE
            /\ clock = 0
            /\ phase = "running"
            /\ pending = NoList
            /\ last = st.last
            /\ recon = NoRecon
            /\ teardown = NoTeardown
            /\ held = NoHeld

\* a new process is started after the old one was shut down
Startup(cfg, plugins, fails) ==
    /\ phase \in {"stopping", "exited"}
    /\ \E st \in {Started(cfg, plugins, fails, dbfile)} :
           /\ bot' = st.bot
           /\ webhooks' = st.webhooks
           /\ crontab' = st.crontab
           /\ last' = st.last
    /\ roster' = {}
    /\ joined' = {}
    /\ session' = FALSE
    /\ phase' = "running"
    /\ pending' = NoList
    /\ recon' = NoRecon
    /\ teardown' = NoTeardown
    /\ UNCHANGED <<dbfile, clock, held>>

\* time passes
Tick ==
    /\ clock < MaxClock
    /\ clock' = clock + 1
    /\ UNCHANGED <<bot, dbfile, webhooks, crontab, roster, joined, session,
                   phase, pending, last, recon, teardown, held>>

\* session_start(event)
SessionStart ==
    /\ phase \in Alive
    /\ session' = TRUE
    /\ IF bot.room # NoRoom /\ bot.muc
       THEN joined' = {bot.room} /\ roster' = {}
       ELSE UNCHANGED <<joined, roster>>
    /\ last' = [LastNone EXCEPT !.op = "session_start"]
    /\ recon' = NoRecon
    /\ held' = NoHeld
    /\ UNCHANGED <<bot, dbfile, webhooks, crontab, clock, phase,
                   pending, teardown>>

\* muc_online(presence) for the bot's own presence in the room
MucOnlineSelf(get_fail, set_fail, mem_fail) ==
    /\ phase \in Alive /\ session /\ TheRoom \in joined /\ bot.muc
    /\ bot.room = TheRoom
    /\ \E r \in {muc_online_self(bot, roster, Now, get_fail, set_fail, mem_fail)} :
           /\ bot' = r.bot
           /\ last' = [LastNone EXCEPT !.op = "muc_online_self",
                                       !.invites = r.invites,
                                       !.pushed = r.pushed,
                                       !.members = r.members,
                                       !.failed = r.failed]
           /\ recon' =
                IF recon.runs = 0
                THEN [NoRecon EXCEPT !.runs = 1, !.once = r.invites,
                                     !.after_first = r.bot.room_users_invited]
                ELSE [NoRecon EXCEPT
                        !.runs = 2, !.once = recon.once \cup r.invites,
                        !.twice = recon.twice \cup (recon.once \cap r.invites),
                        !.after_first = recon.after_first]
    /\ held' = NoHeld
    /\ UNCHANGED <<dbfile, webhooks, crontab, roster, joined, session, clock,
                   phase, pending, teardown>>

\* muc_online(presence) for another occupant entering the room
MucOnlineOther(jid) ==
    /\ phase \in Alive /\ session /\ TheRoom \in joined /\ bot.muc
    /\ jid \notin roster
    /\ roster' = roster \cup {jid}
    /\ bot' = jid_entered_room(bot, jid, Now)
    /\ last' = [LastNone EXCEPT !.op = "muc_online", !.greeting = TRUE]
    /\ recon' = NoRecon
    /\ held' = NoHeld
    /\ UNCHANGED <<dbfile, webhooks, crontab, joined, session, clock,
                   phase, pending, teardown>>

\* muc_offline(presence)
MucOffline(jid) ==
    /\ phase \in Alive /\ session /\ TheRoom \in joined /\ bot.muc
    /\ jid \in roster
    /\ roster' = roster \ {jid}
    /\ bot' = jid_left_room(bot, jid, Now)
    /\ last' = [LastNone EXCEPT !.op = "muc_offline", !.greeting = TRUE]
    /\ recon' = NoRecon
    /\ held' = NoHeld
    /\ UNCHANGED <<dbfile, webhooks, crontab, joined, session, clock,
                   phase, pending, teardown>>

\* message(msg) for a stanza of the 'message' event
Message(msg) ==
    /\ phase \in Alive /\ session
    /\ last' = [LastNone EXCEPT !.op = "message", !.msg = msg,
                                !.out = message(bot, msg, {"chat", "normal"})]
    /\ recon' = NoRecon
    /\ held' = NoHeld
    /\ UNCHANGED <<bot, dbfile, webhooks, crontab, roster, joined, session,
                   clock, phase, pending, teardown>>

\* muc_message(msg) for a stanza of the 'groupchat_message' event; the
\* handler is registered by __init__ when a room is configured
MucMessage(msg) ==
    /\ phase \in Alive /\ session /\ TheRoom \in joined /\ bot.muc
    /\ last' = [LastNone EXCEPT
                  !.op = "muc_message",
                  !.out = muc_message(bot, roster, msg),
                  !.muc = [mucnick |-> msg.mucnick, text |-> msg.text,
                           ready |-> bot.muc_ready,
                           jid |-> getJidProperty(roster, msg.mucnick)]]
    /\ recon' = NoRecon
    /\ held' = NoHeld
    /\ UNCHANGED <<bot, dbfile, webhooks, crontab, roster, joined, session,
                   clock, phase, pending, teardown>>

\* muc_online(presence) for the bot's own presence, run by the handler
\* thread t, step by step: first the part before the loop over room_users
ReconStart(t) ==
    /\ phase \in Alive /\ session /\ TheRoom \in joined /\ bot.muc
    /\ bot.room = TheRoom
    /\ recon.pc[t] = "idle"
    /\ bot' = [room_config(bot, FALSE, FALSE, FALSE).bot EXCEPT !.muc_ready = TRUE]
    /\ recon' = [recon EXCEPT
                   !.pc[t] = IF bot.room_users = {} THEN "done" ELSE "loop",
                   !.todo[t] = bot.room_users]
    /\ last' = [LastNone EXCEPT !.op = "muc_online_thread"]
    /\ UNCHANGED <<dbfile, webhooks, crontab, roster, joined, session, clock,
                   phase, pending, teardown, held>>

\* one iteration of the loop up to the invitation: the tests of
\* _is_jid_in_room, room_invites and "user in self.room_users_invited"
ReconCheck(t, user) ==
    /\ phase \in Alive
    /\ recon.pc[t] = "loop" /\ recon.user[t] = "" /\ user \in recon.todo[t]
    /\ bot' = IF is_jid_in_room(roster, user)
              THEN [bot EXCEPT !.room_users_last_seen =
                                   update_room_users_last_seen(@, user, Now)]
              ELSE bot
    /\ recon' = IF user \in invite_targets(bot, roster)
                THEN [recon EXCEPT !.user[t] = user]
                ELSE [recon EXCEPT
                        !.todo[t] = @ \ {user},
                        !.pc[t] = IF recon.todo[t] = {user} THEN "done" ELSE "loop"]
    /\ UNCHANGED <<dbfile, webhooks, crontab, roster, joined, session, clock,
                   phase, pending, last, teardown, held>>

\* "self.muc.invite(self.room, user)" and "self.room_users_invited.add(user)"
\* of the iteration thread t is in
ReconInvite(t) ==
    /\ phase \in Alive
    /\ recon.pc[t] = "loop" /\ recon.user[t] # ""
    /\ bot' = [bot EXCEPT !.room_users_invited = mark_invited(@, {recon.user[t]})]
    /\ recon' = [recon EXCEPT
                   !.once = @ \cup {recon.user[t]},
                   !.twice = @ \cup ({recon.user[t]} \cap recon.once),
                   !.user[t] = "",
                   !.todo[t] = @ \ {recon.user[t]},
                   !.pc[t] = IF recon.todo[t] = {recon.user[t]}
                             THEN "done" ELSE "loop"]
    /\ UNCHANGED <<dbfile, webhooks, crontab, roster, joined, session, clock,
                   phase, pending, last, teardown, held>>

\* _handle_new_subscription(pres) for a subscription request of jid
Subscribe(jid) ==
    /\ phase \in Alive /\ session
    /\ last' = [LastNone EXCEPT
                  !.op = "subscription",
                  !.sub = [made |-> TRUE, from |-> jid, seen |-> bot.users,
                           before |-> bot.users,
                           allowed |-> handle_new_subscription(bot.users, jid)]]
    /\ recon' = NoRecon
    /\ held' = NoHeld
    /\ UNCHANGED <<bot, dbfile, webhooks, crontab, roster, joined, session,
                   clock, phase, pending, teardown>>

\* prereload(), called by main when a reload is requested
Prereload ==
    /\ phase = "running"
    /\ bot' = prereload_bot(bot)
    /\ webhooks' = prereload_webhooks(bot, webhooks)
    /\ crontab' = prereload_crontab(bot, crontab)
    /\ dbfile' = prereload_dbfile(bot, dbfile)
    /\ phase' = "prereload"
    /\ last' = [LastNone EXCEPT !.op = "prereload"]
    /\ recon' = NoRecon
    /\ held' = NoHeld
    /\ UNCHANGED <<roster, joined, session, clock, pending, teardown>>

\* main loads the plugin modules of the new configuration
MainLoad(plugins) ==
    /\ phase = "prereload"
    /\ pending' = plugins
    /\ webhooks' = register_hooks(bot.webserver, webhooks, plugins)
    /\ crontab' = register_jobs(bot.cron, crontab, plugins)
    /\ phase' = "loaded"
    /\ last' = [LastNone EXCEPT !.op = "main_load", !.list = plugins]
    /\ recon' = NoRecon
    /\ held' = NoHeld
    /\ UNCHANGED <<bot, dbfile, roster, joined, session, clock, teardown>>

\* reload(config, plugins), called by main after the plugin modules loaded
Reload(cfg, fails) ==
    /\ phase = "loaded"
    /\ \E r \in {reload(bot, cfg, pending, fails, dbfile)} :
           /\ bot' = r.bot
           /\ roster' = IF r.rejoin /\ r.bot.room = TheRoom THEN {} ELSE roster
           /\ joined' = rooms_after(joined, r.calls)
           /\ last' = [LastNone EXCEPT !.op = "reload", !.raised = r.raised,
                                       !.calls = r.calls,
                                       !.joined = joined,
                                       !.list = pending,
                                       !.before = bot.plugins,
                                       !.constructed = r.constructed,
                                       !.fails = fails]
    /\ phase' = "running"
    /\ pending' = NoList
    /\ recon' = NoRecon
    /\ held' = NoHeld
    /\ UNCHANGED <<dbfile, webhooks, crontab, session, clock, teardown>>

\* shutdown(signalnum, handler); f_db = db.close() raises (the file is then
\* written or not), f_abort = abort() raises
Shutdown(f_db, written, f_abort) ==
    /\ phase \in Alive \cup {"stopping"}
    /\ IF shutdown_in_progress(bot)
       THEN /\ teardown' = [teardown EXCEPT !.calls = Inc(@)]
            /\ last' = [LastNone EXCEPT !.op = "shutdown", !.noop = TRUE]
            /\ UNCHANGED <<bot, dbfile, phase, held>>
       ELSE /\ bot' = shutdown_bot(bot, f_db)
            /\ dbfile' = shutdown_dbfile(bot, dbfile, f_db, written)
            /\ teardown' = [shutdown_teardown(bot, teardown) EXCEPT !.calls = Inc(@)]
            /\ held' = [valid |-> TRUE, db |-> bot.db, saved |-> bot.db /\ ~f_db,
                        room_users_invited |-> bot.room_users_invited,
                        room_users_last_seen |-> bot.room_users_last_seen]
            /\ \E o \in {abort_outcome(f_abort, session)} :
                   /\ phase' = IF o.exit # 0 THEN "exited" ELSE "stopping"
                   /\ last' = [LastNone EXCEPT !.op = "shutdown",
                                               !.raised = o.raised,
                                               !.exit = o.exit]
    /\ recon' = NoRecon
    /\ UNCHANGED <<webhooks, crontab, roster, joined, session, clock,
                   pending>>

\* reload(config, plugins) while a subscription request of jid is handled in
\* the event thread, which reads self.users as seen
ReloadObserved(cfg, jid, seen) ==
    /\ phase = "loaded"
    /\ seen \in users_views(bot, cfg)
    /\ \E r \in {reload(bot, cfg, pending, {}, dbfile)} :
           /\ bot' = r.bot
           /\ roster' = IF r.rejoin /\ r.bot.room = TheRoom THEN {} ELSE roster
           /\ joined' = rooms_after(joined, r.calls)
           /\ last' = [LastNone EXCEPT
                         !.op = "reload", !.raised = r.raised,
                         !.calls = r.calls, !.joined = joined,
                         !.list = pending, !.before = bot.plugins,
                         !.constructed = r.constructed,
                         !.sub = [made |-> TRUE, from |-> jid, seen |-> seen,
                                  before |-> bot.users,
                                  allowed |-> handle_new_subscription(seen, jid)]]
    /\ phase' = "running"
    /\ pending' = NoList
    /\ recon' = NoRecon
    /\ held' = NoHeld
    /\ UNCHANGED <<dbfile, webhooks, crontab, session, clock, teardown>>

\* a reload requested after shutdown has run and before the process is
\* gone: prereload(), the plugin modules and reload(config, plugins)
ReloadRequest(cfg, plugins, fails) ==
    /\ phase = "stopping"
    /\ \E b1 \in {prereload_bot(bot)}, file1 \in {prereload_dbfile(bot, dbfile)} :
         \E r \in {reload(b1, cfg, plugins, fails, file1)} :
           /\ bot' = r.bot
           /\ dbfile' = file1
           /\ roster' = IF r.rejoin /\ r.bot.room = TheRoom THEN {} ELSE roster
           /\ joined' = rooms_after(joined, r.calls)
           /\ last' = [LastNone EXCEPT !.op = "reload", !.raised = r.raised,
                                       !.calls = r.calls,
                                       !.joined = joined,
                                       !.list = plugins,
                                       !.before = bot.plugins,
                                       !.constructed = r.constructed,
                                       !.fails = fails]
    /\ webhooks' = register_hooks(bot.webserver,
                                  prereload_webhooks(bot, webhooks), plugins)
    /\ crontab' = register_jobs(bot.cron, prereload_crontab(bot, crontab),
                                plugins)
    /\ recon' = NoRecon
    /\ held' = NoHeld
    /\ UNCHANGED <<session, clock, phase, pending, teardown>>

\* shutdown, step by step: the guard and "self.shutting_down = True"
ShutdownBegin ==
    /\ phase \in Alive
    /\ ~shutdown_in_progress(bot)
    /\ bot' = [bot EXCEPT !.shutting_down = TRUE]
    /\ phase' = "stop_webserver"
    /\ teardown' = [teardown EXCEPT !.calls = Inc(@)]
    /\ held' = [valid |-> TRUE, db |-> bot.db, saved |-> FALSE,
                room_users_invited |-> bot.room_users_invited,
                room_users_last_seen |-> bot.room_users_last_seen]
    /\ last' = [LastNone EXCEPT !.op = "shutdown"]
    /\ recon' = NoRecon
    /\ UNCHANGED <<dbfile, webhooks, crontab, roster, joined, session, clock,
                   pending>>

\* "if self.webserver: self.webserver.stop()"; f = stop() raises
StopWebserver(f) ==
    /\ phase = "stop_webserver"
    /\ teardown' = stop_webserver(bot, teardown)
    /\ phase' = shutdown_next(phase, f /\ bot.webserver)
    /\ last' = [last EXCEPT !.failed = @ \cup {x \in {"webserver"} : f /\ bot.webserver}]
    /\ UNCHANGED <<bot, dbfile, webhooks, crontab, roster, joined, session,
                   clock, pending, recon, held>>

\* "if self.cron: self.cron.stop()"; f = stop() raises
StopCron(f) ==
    /\ phase = "stop_cron"
    /\ teardown' = stop_cron(bot, teardown)
    /\ phase' = shutdown_next(phase, f /\ bot.cron)
    /\ last' = [last EXCEPT !.failed = @ \cup {x \in {"cron"} : f /\ bot.cron}]
    /\ UNCHANGED <<bot, dbfile, webhooks, crontab, roster, joined, session,
                   clock, pending, recon, held>>

\* "if self.db is not None: ..."; f = db.close() raises, the file is then
\* written or not
StopStore(f, written) ==
    /\ phase = "stop_db"
    /\ teardown' = stop_db(bot, teardown)
    /\ bot' = shutdown_bot(bot, f)
    /\ dbfile' = shutdown_dbfile(bot, dbfile, f, written)
    /\ held' = [held EXCEPT !.saved = bot.db /\ ~f]
    /\ phase' = shutdown_next(phase, f /\ bot.db)
    /\ last' = [last EXCEPT !.failed = @ \cup {x \in {"db"} : f /\ bot.db}]
    /\ UNCHANGED <<webhooks, crontab, roster, joined, session, clock, pending,
                   recon>>

\* "try: self.abort()"; f_abort = abort() raises
Abort(f_abort) ==
    /\ phase = "stop_abort"
    /\ teardown' = stop_abort(teardown)
    /\ \E o \in {abort_outcome(f_abort, session)} :
           /\ phase' = IF o.exit # 0 THEN "exited" ELSE "stopping"
           /\ last' = [last EXCEPT !.raised = o.raised, !.exit = o.exit,
                                   !.failed = @ \cup {x \in {"abort"} : f_abort}]
    /\ UNCHANGED <<bot, dbfile, webhooks, crontab, roster, joined, session,
                   clock, pending, recon, held>>

----------------------------------------------------------------------------
\* Room membership: reloads that change the room settings and the store,
\* and presence events in the room.
RoomUserOptions ==
    {{}, {Jid("a@x")}, {Jid("a@x"), Jid("b@x")}, {Jid("b@x"), Jid(TheRoom)},
     {Kwd("users"), Bad("nobody")}}
Invites == {<<FALSE, FALSE>>, <<TRUE, TRUE>>, <<TRUE, FALSE>>}
RoomConfigs ==
    {Config(d, {}, {}, NoRoom, i[1], i[2], {}, {}, FALSE, FALSE) :
        d \in BOOLEAN, i \in Invites}
    \cup {Config(d, {}, {}, TheRoom, i[1], i[2], ru, {}, FALSE, FALSE) :
            d \in BOOLEAN, i \in Invites, ru \in RoomUserOptions}

InitRoom == InitOver(RoomConfigs, {NoList})

NextRoom ==
    \/ SessionStart
    \/ \E g, t, m \in BOOLEAN : MucOnlineSelf(g, t, m)
    \/ \E jid \in JIDs : MucOnlineOther(jid)
    \/ \E jid \in JIDs : MucOffline(jid)
    \/ Prereload
    \/ MainLoad(NoList)
    \/ \E cfg \in RoomConfigs : Reload(cfg, {})

SpecRoom == InitRoom /\ [][NextRoom]_vars

----------------------------------------------------------------------------
\* The persistent store: presence events stamp last-seen times, the bot is
\* reloaded, shut down and started again under another configuration.
StoreUserOptions == {{}, {Jid("a@x")}, {Jid("a@x"), Jid("b@x")}}
StoreConfigs ==
    {Config(d, {}, {}, NoRoom, FALSE, FALSE, {}, {}, FALSE, FALSE) :
        d \in BOOLEAN}
    \cup {Config(d, {}, {}, TheRoom, FALSE, FALSE, ru, {}, FALSE, FALSE) :
            d \in BOOLEAN, ru \in StoreUserOptions}

InitStore == InitOver(StoreConfigs, {NoList})

NextStore ==
    \/ Tick
    \/ SessionStart
    \/ MucOnlineSelf(FALSE, FALSE, FALSE)
    \/ MucOnlineOther("a@x")
    \/ MucOffline("a@x")
    \/ Prereload
    \/ MainLoad(NoList)
    \/ \E cfg \in StoreConfigs : Reload(cfg, {})
    \/ \E f, w \in BOOLEAN : Shutdown(f, w, FALSE)
    \/ \E cfg \in StoreConfigs : Startup(cfg, NoList, {})

SpecStore == InitStore /\ [][NextStore]_vars

----------------------------------------------------------------------------
\* The lifecycle: plugin loading at start and reload, shutdown and restart.
LifeConfigs ==
    {Config(d, {}, {}, NoRoom, FALSE, FALSE, {}, {}, w, c) :
        d \in BOOLEAN, w \in BOOLEAN, c \in BOOLEAN}

InitLife == InitOver(LifeConfigs, PluginLists)

NextLife ==
    \/ SessionStart
    \/ Prereload
    \/ \E plugins \in PluginLists : MainLoad(plugins)
    \/ \E cfg \in LifeConfigs, fails \in SUBSET Modules : Reload(cfg, fails)
    \/ \E f, w, a \in BOOLEAN : Shutdown(f, w, a)
    \/ \E cfg \in LifeConfigs, plugins \in PluginLists, fails \in SUBSET Modules :
           Startup(cfg, plugins, fails)

SpecLife == InitLife /\ [][NextLife]_vars

----------------------------------------------------------------------------
\* Command dispatch: messages arrive while roles and plugins are reloaded.
MsgUserOptions == {{}, {Jid("a@x")}, {Jid("a@x"), Jid("b@x")}}
MsgAdminOptions == {{}, {Jid("a@x")}, {Kwd("users")}, {Jid("b@x"), Bad("root")}}
MsgConfigs ==
    {Config(FALSE, u, a, NoRoom, FALSE, FALSE, {}, {}, FALSE, FALSE) :
        u \in MsgUserOptions, a \in MsgAdminOptions}
MsgLists == {List(<<>>), List(<<Spec1("p1")>>)}
Messages == [type : MsgTypes, from : JIDs, body : Bodies]

InitMsg == InitOver(MsgConfigs, MsgLists)

NextMsg ==
    \/ SessionStart
    \/ \E msg \in Messages : Message(msg)
    \/ Prereload
    \/ \E plugins \in MsgLists : MainLoad(plugins)
    \/ \E cfg \in MsgConfigs : Reload(cfg, {})

SpecMsg == InitMsg /\ [][NextMsg]_vars

----------------------------------------------------------------------------
\* Room affiliations: reloads that change room_users and room_admins, each
\* followed by the bot's return to the room.
MemberUserOptions ==
    {{}, {Jid("a@x")}, {Jid("a@x"), Jid("b@x")}, {Jid("a@x"), Jid(BotJid)}}
MemberAdminOptions == {{}, {Jid("a@x")}, {Jid("b@x")}, {Kwd("room_users")}}
MemberConfigs ==
    {Config(FALSE, {}, {}, TheRoom, FALSE, FALSE, ru, ra, FALSE, FALSE) :
        ru \in MemberUserOptions, ra \in MemberAdminOptions}

InitMembers == InitOver(MemberConfigs, {NoList})

NextMembers ==
    \/ SessionStart
    \/ \E g, t, m \in BOOLEAN : MucOnlineSelf(g, t, m)
    \/ Prereload
    \/ MainLoad(NoList)
    \/ \E cfg \in MemberConfigs : Reload(cfg, {})

SpecMembers == InitMembers /\ [][NextMembers]_vars

----------------------------------------------------------------------------
\* Shutdown step by step, with a collaborator stop that may fail at every
\* step.  Once the handler has started it runs on: its steps are fair.
InitStop == InitOver(LifeConfigs, {NoList})

StopSteps ==
    \/ \E f \in BOOLEAN : StopWebserver(f)
    \/ \E f \in BOOLEAN : StopCron(f)
    \/ \E f, w \in BOOLEAN : StopStore(f, w)
    \/ \E a \in BOOLEAN : Abort(a)

NextStop ==
    \/ SessionStart
    \/ ShutdownBegin
    \/ StopSteps
    \/ \E cfg \in LifeConfigs : Startup(cfg, NoList, {})

SpecStop == InitStop /\ [][NextStop]_vars /\ WF_vars(StopSteps)

----------------------------------------------------------------------------
\* Reloads in flight: requests that arrive after a shutdown, and handlers
\* of the event thread that read the role sets while a reload rewrites them.
InitFlight == InitOver(MsgConfigs, MsgLists)

NextFlight ==
    \/ SessionStart
    \/ Prereload
    \/ \E plugins \in MsgLists : MainLoad(plugins)
    \/ \E cfg \in MsgConfigs, jid \in JIDs, seen \in SUBSET JIDs :
           ReloadObserved(cfg, jid, seen)
    \/ Shutdown(FALSE, FALSE, FALSE)
    \/ \E cfg \in MsgConfigs, plugins \in MsgLists :
           ReloadRequest(cfg, plugins, {})

SpecFlight == InitFlight /\ [][NextFlight]_vars

----------------------------------------------------------------------------
\* Room chat: groupchat messages arrive while occupants come and go and the
\* bot is reloaded, also under a configuration that names no room any more.
GroupConfigs ==
    {Config(FALSE, u, {Kwd("users")}, r, FALSE, FALSE, {}, {}, FALSE, FALSE) :
        u \in {{}, {Jid("a@x")}}, r \in {TheRoom, NoRoom}}
GroupTexts ==
    {nick \o <<":", " ", "s", "t", "a", "t", "u", "s">>,       \* 'Ludolph: status'
     nick \o <<":", "r", "e", "s", "t", "a", "r", "t">>,       \* 'Ludolph:restart'
     nick \o <<":", " ", "u", "p">>,                           \* 'Ludolph: up'
     nick \o <<":", " ">>,                                     \* 'Ludolph: '
     nick \o <<" ", "s", "t", "a", "t", "u", "s">>,            \* 'Ludolph status'
     <<"s", "t", "a", "t", "u", "s">>}                         \* 'status'
\* <<"g">> is a nickname the roster of the room has no entry for
GroupMessages ==
    [type : {"groupchat"}, from : {TheRoom},
     mucnick : {nick, NickOf("a@x"), <<"g">>}, text : GroupTexts]

NextGroup ==
    \/ SessionStart
    \/ MucOnlineSelf(FALSE, FALSE, FALSE)
    \/ MucOnlineOther("a@x")
    \/ MucOffline("a@x")
    \/ \E msg \in GroupMessages : MucMessage(msg)
    \/ \E jid \in JIDs : Subscribe(jid)
    \/ Prereload
    \/ MainLoad(List(<<Spec1("p1")>>))
    \/ \E cfg \in GroupConfigs : Reload(cfg, {})

SpecGroup ==
    InitOver(GroupConfigs, {List(<<Spec1("p1")>>)}) /\ [][NextGroup]_vars

----------------------------------------------------------------------------
\* Reconciliation in two handler threads: the bot's own presence is
\* delivered twice and muc_online, registered threaded, runs in two threads
\* whose loop iterations interleave.
NextRecon ==
    \/ SessionStart
    \/ (recon.pc = <<"idle", "idle">> /\ MucOnlineOther("a@x"))
    \/ \E t \in {1, 2} : ReconStart(t)
    \/ \E t \in {1, 2}, user \in JIDs : ReconCheck(t, user)
    \/ \E t \in {1, 2} : ReconInvite(t)

SpecRecon == InitOver(MemberConfigs, {NoList}) /\ [][NextRecon]_vars

----------------------------------------------------------------------------
\* A change of room: the bot is constructed for TheRoom and reloaded under
\* configurations that name TheRoom or OtherRoom, with invitations on or
\* off, while occupants come in and time passes.
MovedConfigs ==
    {Config(FALSE, {}, {}, r, i[1], i[2], ru, {}, FALSE, FALSE) :
        r \in {TheRoom, OtherRoom}, i \in Invites, ru \in StoreUserOptions}

NextMoved ==
    \/ Tick
    \/ SessionStart
    \/ MucOnlineSelf(FALSE, FALSE, FALSE)
    \/ \E jid \in JIDs : MucOnlineOther(jid)
    \/ Prereload
    \/ MainLoad(NoList)
    \/ \E cfg \in MovedConfigs : Reload(cfg, {})

SpecMoved ==
    InitOver({c \in MovedConfigs : c.room = TheRoom}, {NoList})
    /\ [][NextMoved]_vars

----------------------------------------------------------------------------
\* Properties

\* C1: once the reconciliation that follows a reload has completed, every
\* identity in room_users_invited is a member of room_users.
C1_InvitedWithinRoomUsers ==
    (last.op = "muc_online_self" /\ bot.reloaded)
        => bot.room_users_invited \subseteq bot.room_users
\* a reconciliation after a reload that attached a store whose file still
\* names an identity dropped from room_users
C1_Witness ==
    /\ last.op = "muc_online_self" /\ bot.reloaded /\ bot.db
    /\ bot.room_users_invited # {}
    /\ ~(dbfile.room_users_invited \subseteq bot.room_users)

\* C2: of two reconciliations in succession the second issues no invitation:
\* nobody is invited twice and room_users_invited is as after the first.
C2_SecondRunInvitesNobody ==
    recon.runs = 2
        => /\ recon.twice = {}
           /\ last.invites = {}
           /\ bot.room_users_invited = recon.after_first
\* a second run in succession after a first one that invited somebody
C2_Witness == recon.runs = 2 /\ recon.once # {} /\ last.op = "muc_online_self"

\* C7: the room configuration _room_config pushes is open (not members-only,
\* members by default) when room_users is empty and members-only otherwise.
C7_PolicyFollowsRoomUsers ==
    (last.op = "muc_online_self" /\ last.pushed.fetched)
        => /\ bot.room_users = {} => last.pushed = Form(FALSE, TRUE)
           /\ bot.room_users # {} => last.pushed = Form(TRUE, FALSE)
\* a configuration pushed for a room without configured users
C7_Witness ==
    last.op = "muc_online_self" /\ last.pushed.fetched /\ bot.room_users = {}

\* C8: what a store-backed shutdown wrote is what the next start with a store
\* holds: the invited set cut down to the new room_users, the last-seen map
\* entry for entry.
C8_StoreRoundTrip ==
    (last.op = "startup" /\ held.valid /\ held.saved /\ bot.db)
        => /\ bot.room_users_invited = held.room_users_invited \cap bot.room_users
           /\ bot.room_users_last_seen = held.room_users_last_seen
\* a restart that prunes one invitation, keeps another and restores a
\* last-seen entry
C8_Witness ==
    /\ last.op = "startup" /\ held.valid /\ held.saved /\ bot.db
    /\ bot.room_users_invited # {}
    /\ bot.room_users_invited # held.room_users_invited
    /\ \E j \in DOMAIN held.room_users_last_seen : held.room_users_last_seen[j] > 0

\* C3: after a reload whose plugin spec list no longer contains a loaded
\* plugin P, P is not in the registry, the command table holds no command of
\* P, and no webhook or cron job of P is registered.
C3_RemovedPluginLeavesNothing ==
    (last.op = "reload" /\ ~last.raised)
        => \A P \in (Keys(last.before) \ {SelfModule}) \ ListModules(last.list) :
               /\ P \notin Keys(bot.plugins)
               /\ \A c \in bot.commands : c.module # P
               /\ P \notin webhooks
               /\ P \notin crontab
\* p1, loaded with a web server and cron attached, is dropped by a reload
\* that keeps another plugin
C3_Witness ==
    /\ last.op = "reload" /\ ~last.raised
    /\ "p1" \in Keys(last.before) /\ "p1" \notin ListModules(last.list)
    /\ bot.webserver /\ bot.cron
    /\ "p2" \in Keys(bot.plugins)

\* C4: of two shutdown invocations only the first stops the web server and
\* cron, flushes and closes the store and aborts the session; the second is
\* a no-op.
C4_TeardownOnce ==
    teardown.calls = 2
        => /\ teardown.abort = 1
           /\ teardown.webserver_stop = (IF bot.webserver THEN 1 ELSE 0)
           /\ teardown.cron_stop = (IF bot.cron THEN 1 ELSE 0)
           /\ teardown.db_set_items = (IF held.db THEN 1 ELSE 0)
           /\ teardown.db_close = (IF held.db THEN 1 ELSE 0)
           /\ last.op = "shutdown" /\ last.noop
\* a second shutdown of a bot with all three collaborators
C4_Witness ==
    teardown.calls = 2 /\ bot.webserver /\ bot.cron /\ held.db

\* C5: a message of an accepted type whose first token is not a command
\* name gets the fallback reply, whatever its body and token count.
C5_UnknownCommandFallsBack ==
    (/\ last.op = "message"
     /\ last.msg.type \in {"chat", "normal"}
     /\ (last.msg.body = <<>> \/ last.msg.body[1] \notin Names(bot.commands)))
        => last.out = "fallback"

\* C6: a sender in users but not in admins never gets the handler of an
\* admin-gated command executed.
C6_AdminGateKeepsUsersOut ==
    (/\ last.op = "message"
     /\ last.msg.type \in {"chat", "normal"}
     /\ last.msg.from \in bot.users \ bot.admins
     /\ last.msg.body # <<>>
     /\ \E c \in bot.commands : c.name = last.msg.body[1] /\ c.gate = "Admin")
        => last.out # "executed"
\* b@x, a user and no admin, asks for the admin command of p1
C6_Witness ==
    /\ last.op = "message" /\ last.msg.from = "b@x"
    /\ "b@x" \in bot.users \ bot.admins /\ "a@x" \in bot.admins
    /\ last.msg.body = <<"restart">> /\ last.out = "denied"

\* C9: after a plugin load the registry holds, besides the bot, exactly the
\* specs whose constructor succeeded, and every spec was gone through.
C9_RegistryIsSucceededSpecs ==
    (last.op \in {"startup", "reload"} /\ ~last.raised)
        => /\ Keys(bot.plugins) \ {SelfModule} = ListModules(last.list) \ last.fails
           /\ Len(last.constructed) = Len(last.list.specs)
           /\ \A i \in DOMAIN last.constructed :
                  last.constructed[i].module = last.list.specs[i].module
\* a reload in which the constructor of the registered p1 raises and p2,
\* next in the list, is loaded
C9_Witness ==
    /\ last.op = "reload" /\ ~last.raised
    /\ "p1" \in Keys(last.before) /\ last.fails = {"p1"}
    /\ last.list = List(<<Spec1("p1"), Spec1("p2")>>)
    /\ "p2" \in Keys(bot.plugins)

C11_ReadyDespiteConfigFailure ==
    last.op = "muc_online_self" => bot.muc_ready /\ phase \in Alive
\* the room configuration could not be fetched, or both pushes were rejected
C11_Witness ==
    /\ last.op = "muc_online_self" /\ bot.muc_ready
    /\ last.failed \in {{"get"}, {"set", "members"}}

\* C12: the affiliation list _room_members pushes holds exactly the bot as
\* owner, every configured room admin as admin and every other configured
\* room member as member.
C12_EveryRoomAdminIsAdmin ==
    (last.op = "muc_online_self" /\ last.pushed.fetched)
        => last.members =
               {[jid |-> BotJid, affiliation |-> "owner"]}
               \cup {[jid |-> j, affiliation |-> "admin"] : j \in bot.room_admins}
               \cup {[jid |-> j, affiliation |-> "member"] :
                        j \in bot.room_users \ bot.room_admins}
\* C12 as amended: the list holds the bot as owner and one item for every
\* identity in room_users, admin if it is also in room_admins and member
\* otherwise; an identity that is only in room_admins gets no item.
C12_RoomUsersAffiliated ==
    (last.op = "muc_online_self" /\ last.pushed.fetched)
        => /\ [jid |-> BotJid, affiliation |-> "owner"] \in last.members
           /\ \A j \in bot.room_users :
                  {i.affiliation : i \in {k \in last.members : k.jid = j}}
                      \ {"owner"}
                  = {IF j \in bot.room_admins THEN "admin" ELSE "member"}
           /\ \A i \in last.members :
                  \/ i.jid \in bot.room_users /\ i.affiliation # "owner"
                  \/ i.jid = BotJid /\ i.affiliation = "owner"
\* a list pushed for a room whose only room admin is not a room user
C12_Witness ==
    /\ last.op = "muc_online_self" /\ last.pushed.fetched
    /\ bot.room_users = {"a@x"} /\ bot.room_admins = {"b@x"}
    /\ [jid |-> "a@x", affiliation |-> "member"] \in last.members
    /\ \A i \in last.members : i.jid # "b@x"

\* C13: handling the entry or the departure of a participant other than the
\* bot changes that identity's last-seen entry and nothing else of the bot:
\* room_users_invited, the role sets and the room configuration stay as
\* they are, nothing is pushed and nobody is invited.
C13_PresenceTouchesLastSeenOnly ==
    [][(last'.op \in {"muc_online", "muc_offline"} /\ roster' # roster)
          => \E j \in (roster' \ roster) \cup (roster \ roster') :
                 /\ bot' = [bot EXCEPT !.room_users_last_seen =
                               [k \in DOMAIN bot.room_users_last_seen \cup {j} |->
                                   IF k = j THEN clock
                                   ELSE bot.room_users_last_seen[k]]]
                 /\ last'.invites = {}
                 /\ last'.members = {}
                 /\ ~last'.pushed.fetched]_vars
\* an invited user has left the room at a later time than it was first seen
C13_Witness ==
    /\ last.op = "muc_offline" /\ clock > 0
    /\ "a@x" \in bot.room_users_invited /\ "a@x" \notin roster
    /\ bot.room_users_last_seen["a@x"] = clock

\* C14: a greeting or farewell for a participant other than the bot is sent
\* only while the room is Ready (_muc_ready is True).
C14_GreetingOnlyWhenReady ==
    (last.op \in {"muc_online", "muc_offline"} /\ last.greeting)
        => bot.muc_ready

\* C15: the persistent store, the scheduler and the webhook server are
\* constructed and attached during start only: no reload attaches one.
C15_NoReloadAttaches ==
    [][(phase = "loaded" /\ phase' = "running")
          => /\ bot'.db => bot.db
             /\ bot'.webserver => bot.webserver
             /\ bot'.cron => bot.cron]_vars
\* C15 as amended: no reload constructs, attaches or removes the scheduler
\* or the webhook server; the persistent store is detached when a reload
\* starts, so that a store the reload leaves attached is a new instance.
C15_ReloadKeepsServerAndCron ==
    [][(phase = "loaded" /\ phase' = "running")
          => /\ bot'.webserver = bot.webserver
             /\ bot'.cron = bot.cron
             /\ ~bot.db]_vars
\* a reload of a bot with a web server and without cron has attached a store
C15_Witness ==
    /\ last.op = "reload" /\ phase = "running"
    /\ bot.db /\ bot.webserver /\ ~bot.cron

\* C16: in the first shutdown, whichever of the web server stop, the cron
\* stop and the store flush and close fail, the stop of every collaborator
\* the bot has is attempted and so is the abort of the session.
C16_EveryStopAttempted ==
    (last.op = "shutdown" /\ phase \in {"stopping", "exited"})
        => /\ teardown.webserver_stop = (IF bot.webserver THEN 1 ELSE 0)
           /\ teardown.cron_stop = (IF bot.cron THEN 1 ELSE 0)
           /\ teardown.db_set_items = (IF held.db THEN 1 ELSE 0)
           /\ teardown.db_close = (IF held.db THEN 1 ELSE 0)
           /\ teardown.abort = 1
\* all three collaborators failed to stop and the shutdown is over
C16_Witness ==
    /\ last.op = "shutdown" /\ phase = "stopping"
    /\ {"webserver", "cron", "db"} \subseteq last.failed
    /\ teardown.abort = 1

\* C19: once shutdown has been requested the bot reaches Stopped, with the
\* abort of the session attempted, whichever collaborator stops fail.
C19_ShutdownReachesStopped ==
    (phase = "stop_webserver")
        ~> (phase \in {"stopping", "exited"} /\ teardown.abort >= 1)
\* Stopped after a shutdown in which a collaborator failed to stop
C19_Witness ==
    /\ last.op = "shutdown" /\ phase \in {"stopping", "exited"}
    /\ last.failed \cap {"webserver", "cron", "db"} # {}
    /\ teardown.abort >= 1 /\ held.valid

\* C20: when abort fails during shutdown, the process exits with status 99
\* and nothing is raised if the session was never established, and the
\* fault is raised to the caller if it was.
C20_AbortFailureOutcome ==
    (last.op = "shutdown" /\ "abort" \in last.failed)
        => IF session
           THEN last.raised /\ last.exit = 0 /\ phase = "stopping"
           ELSE ~last.raised /\ last.exit = 99 /\ phase = "exited"
\* abort failed without a session, after the store could not be closed
C20_Witness ==
    /\ last.op = "shutdown" /\ last.failed = {"db", "abort"}
    /\ ~session /\ last.exit = 99

\* C17: a reload requested while a shutdown is in progress is rejected:
\* configuration and plugin loading never run once shutting_down is set.
C17_NoReloadDuringShutdown ==
    last.op = "reload" => ~bot.shutting_down

\* C18: a handler that runs while a reload is in progress reads a role set
\* either as it was before the reload or as it is after it, never a
\* transiently empty or partly updated one.
C18_ReaderSeesOldOrNew ==
    last.sub.made => last.sub.seen \in {last.sub.before, bot.users}

\* C21: a groupchat message is passed on to the command lookup only if the
\* room is Ready, the message was not sent under the bot's own nickname, its
\* body begins with the bot's nickname and the delimiter, and the room tells
\* the sender's identity; any other groupchat message is dropped.
C21_GroupchatDroppedUnless ==
    (/\ last.op = "muc_message"
     /\ ~(/\ last.muc.ready
          /\ last.muc.mucnick # nick
          /\ startswith(last.muc.text, nick \o <<":">>)
          /\ last.muc.jid # ""))
        => last.out = "dropped"

\* C22: every reload whose configuration names a room leaves the room and
\* then joins it again, in that order, and leaves the room not Ready; the
\* room becomes Ready again only when the bot's own presence is handled,
\* which pushes the room configuration and the affiliations first.
C22_ReloadLeavesThenRejoins ==
    [][/\ (phase = "loaded" /\ phase' = "running" /\ bot'.room # NoRoom)
          => /\ last'.calls = <<[call |-> "leaveMUC", room |-> bot'.room],
                                [call |-> "joinMUC", room |-> bot'.room]>>
             /\ ~bot'.muc_ready
       /\ (~bot.muc_ready /\ bot'.muc_ready)
          => last'.op = "muc_online_self"]_vars

\* C23: when a reload constructs the plugins, the command table, the
\* webhooks and the cron jobs hold nothing of a plugin outside the new
\* plugin set (they were reset before), and after the reload they hold only
\* entries of the new plugin set.
C23_ResetBeforeConstruct ==
    [][(phase = "loaded" /\ phase' = "running")
          => /\ {c.module : c \in bot.commands} \subseteq ListModules(pending)
             /\ webhooks \subseteq ListModules(pending)
             /\ crontab \subseteq ListModules(pending)
             /\ {c.module : c \in bot'.commands} \subseteq ListModules(pending)
             /\ webhooks' \subseteq ListModules(pending)
             /\ crontab' \subseteq ListModules(pending)]_vars
\* a reload has replaced p1, which had a webhook, a cron job and commands,
\* by p2 on a bot with a web server and cron
C23_Witness ==
    /\ last.op = "reload" /\ ~last.raised /\ phase = "running"
    /\ "p1" \in Keys(last.before) /\ last.list = List(<<Spec1("p2")>>)
    /\ last.constructed # <<>>
    /\ bot.webserver /\ bot.cron
    /\ webhooks = {} /\ crontab = {"p2"}
    /\ bot.commands = CommandsOf("p2")

\* C24: when two runs of the reconciliation interleave, every absent room
\* member is invited at most once in total and every invited identity is in
\* room_users_invited.
C24_InterleavedRunsInviteOnce ==
    /\ recon.twice = {}
    /\ recon.user = <<"", "">> => recon.once \subseteq bot.room_users_invited

\* C25: after a reload the bot is in at most one room, the configured one,
\* and the leave the reload issued was for a room the bot was in before.
C25_OneRoomAfterReload ==
    (last.op = "reload" /\ session)
        => /\ joined \subseteq {bot.room}
           /\ \A i \in DOMAIN last.calls :
                  (last.calls[i].call = "leaveMUC" /\ last.joined # {})
                      => last.calls[i].room \in last.joined

\* C26: after the initial load and after every reload, whatever the plugin
\* spec list, the registry holds the bot's own entry under the bot's module
\* key, so that get_xmpp() finds the bot.
C26_BotStaysRegistered ==
    /\ SelfModule \in Keys(bot.plugins)
    /\ Entry(bot.plugins, SelfModule) = SelfEntry
    /\ Cardinality({i \in DOMAIN bot.plugins : bot.plugins[i].module = SelfModule}) = 1
\* a reload with an empty spec list has removed the only plugin
C26_Witness ==
    /\ last.op = "reload" /\ ~last.raised /\ last.list = List(<<>>)
    /\ "p1" \in Keys(last.before)
    /\ Keys(bot.plugins) = {SelfModule}

C28_ReloadKeepsLastSeen ==
    [][((phase = "running" /\ phase' = "prereload")
        \/ (phase = "loaded" /\ phase' = "running"))
          => /\ \A j \in DOMAIN bot.room_users_last_seen :
                    /\ j \in DOMAIN bot'.room_users_last_seen
                    /\ bot'.room_users_last_seen[j] = bot.room_users_last_seen[j]
             /\ (bot.room_users_invited \ bot'.room_users_invited)
                    \cap bot'.room_users = {}]_vars

\* C29: a reconciliation stamps the last-seen entry of every configured
\* room member that is in the room and neither invites it nor adds it to
\* room_users_invited; with room_invites False it invites nobody and leaves
\* room_users_invited as it is.
C29_PresentStampedNeverInvited ==
    [][(last'.op = "muc_online_self" /\ clock' = clock)
          => /\ \A user \in bot.room_users \cap roster :
                    /\ user \in DOMAIN bot'.room_users_last_seen
                    /\ bot'.room_users_last_seen[user] = clock
                    /\ user \notin last'.invites
                    /\ user \in bot'.room_users_invited
                           => user \in bot.room_users_invited
             /\ ~bot.room_invites
                    => /\ last'.invites = {}
                       /\ bot'.room_users_invited = bot.room_users_invited]_vars
\* with invitations enabled a reconciliation at time 1 has found a@x, who
\* entered at time 0, in the room and has invited the absent b@x
C29_Witness ==
    /\ last.op = "muc_online_self" /\ clock = 1
    /\ bot.room_users = {"a@x", "b@x"} /\ roster = {"a@x"}
    /\ bot.room_users_last_seen["a@x"] = 1
    /\ last.invites = {"b@x"} /\ bot.room_users_invited = {"b@x"}

====
